---- MODULE Spec2Model ----
(***************************************************************************)
(* Model of the post-processing core of tishas-po (backend/main.py and     *)
(* backend/utils.py): the page-merge loop of process_batch_file, the       *)
(* finalization helper finalize_and_add_po, the image worker               *)
(* process_batch_image, item deduplication, flag_amount_mismatch,          *)
(* validate_is_po, get_standard_retailer_info and enrich_po_data.          *)
(*                                                                         *)
(* Representation.                                                         *)
(*  - A Python string is a sequence of one-character strings; Python None  *)
(*    in a string-valued field is the sequence None.                       *)
(*  - An amount (total_amount, total_price) is a record [k, c]: k = "none" *)
(*    (null), "num" (a number), "str" (a string float() accepts), "bad"    *)
(*    (a string float() rejects); c is the value in cents.                 *)
(*  - A document is a record with one field per dictionary key the merge,  *)
(*    enrichment, validation and reconciliation code reads; a key that is  *)
(*    absent holds None / NoAmount.                                        *)
(***************************************************************************)
EXTENDS Integers, Sequences, FiniteSets, TLC

VARIABLES
    kind,            \* which worker thread upload_batch started: "none", "pdf", "image"
    pc,              \* position of the worker thread
    status,          \* batch_storage[batch_id]["status"]
    current_page,    \* batch_storage[batch_id]["current_page"]
    total_pages,     \* batch_storage[batch_id]["total_pages"]
    pos,             \* batch_storage[batch_id]["pos"]
    error,           \* batch_storage[batch_id]["error"]
    page_errors,     \* batch_storage[batch_id]["page_errors"]
    merged_docs_map, \* process_batch_file: insertion-ordered dict, a sequence of [key, doc]
    page_results,    \* fragments of the current page not yet processed
    results,         \* process_batch_image: documents returned by process_image, not yet added
    fed,             \* history: every fragment the extractor returned, with its page
    finalized,       \* history: every call of finalize_and_add_po, with the group it was given
    arg,             \* input of the pure-function specifications
    res,             \* output of the pure-function specifications
    fstep            \* position of the pure-function specifications

vars == <<kind, pc, status, current_page, total_pages, pos, error, page_errors,
          merged_docs_map, page_results, results, fed, finalized, arg, res, fstep>>

batchVars == <<kind, pc, status, current_page, total_pages, pos, error, page_errors,
               merged_docs_map, page_results, results, fed, finalized>>

funVars == <<arg, res, fstep>>

----------------------------------------------------------------------------
(* Bounds of the model *)

MaxPages == 3

MaxItems == 3

MaxRows == 2

\* longest generated text given to the normalization
MaxLen == 3

----------------------------------------------------------------------------
(* Python strings *)

None == <<"<None>">>

LowerAlpha == <<"a","b","c","d","e","f","g","h","i","j","k","l","m",
                "n","o","p","q","r","s","t","u","v","w","x","y","z">>

UpperAlpha == <<"A","B","C","D","E","F","G","H","I","J","K","L","M",
                "N","O","P","Q","R","S","T","U","V","W","X","Y","Z">>

Digits == {"0","1","2","3","4","5","6","7","8","9"}

UpperChar(c) ==
    IF \E i \in 1..26 : LowerAlpha[i] = c
    THEN UpperAlpha[CHOOSE i \in 1..26 : LowerAlpha[i] = c]
    ELSE c

LowerChar(c) ==
    IF \E i \in 1..26 : UpperAlpha[i] = c
    THEN LowerAlpha[CHOOSE i \in 1..26 : UpperAlpha[i] = c]
    ELSE c

Upper(s) == [i \in 1..Len(s) |-> UpperChar(s[i])]

Lower(s) == [i \in 1..Len(s) |-> LowerChar(s[i])]

RECURSIVE LStripChars(_, _)
LStripChars(s, cs) ==
    IF s # <<>> /\ Head(s) \in cs THEN LStripChars(Tail(s), cs) ELSE s

RECURSIVE RStripChars(_, _)
RStripChars(s, cs) ==
    IF s # <<>> /\ s[Len(s)] \in cs THEN RStripChars(SubSeq(s, 1, Len(s) - 1), cs) ELSE s

Strip(s) == RStripChars(LStripChars(s, {" "}), {" "})

Contains(s, sub) ==
    \E i \in 0..(Len(s) - Len(sub)) : SubSeq(s, i + 1, i + Len(sub)) = sub

RECURSIVE Remove(_, _)
Remove(s, pat) ==
    IF Len(s) < Len(pat) THEN s
    ELSE IF SubSeq(s, 1, Len(pat)) = pat
         THEN Remove(SubSeq(s, Len(pat) + 1, Len(s)), pat)
         ELSE <<Head(s)>> \o Remove(Tail(s), pat)

\* str(x): None prints as "None"
PyStr(x) == IF x = None THEN <<"N","o","n","e">> ELSE x

\* str(x or ""): None and the empty string give ""
StrOrEmpty(x) == IF x = None THEN <<>> ELSE x

\* truth value of a string-valued field
Truthy(x) == x # None /\ x # <<>>

\* re.sub(r"[^A-Z0-9]", "", s)
ReSubNonAlnum(s) ==
    LET keep(c) == c \in Digits \/ \E i \in 1..26 : UpperAlpha[i] = c
    IN  SelectSeq(s, keep)

\* variant: the text is not upper-cased before the deletion
clean_text_NoUpper(text) == ReSubNonAlnum(PyStr(text))

\* re.sub(r"[^A-Z0-9]", "", str(text).upper())
clean_text(text) == ReSubNonAlnum(Upper(PyStr(text)))

----------------------------------------------------------------------------
(* Amounts *)

NoAmount == [k |-> "none", c |-> 0]

Num(n) == [k |-> "num", c |-> n]

NumStr(n) == [k |-> "str", c |-> n]

BadStr == [k |-> "bad", c |-> 0]

\* truth value of an amount: null and the number 0 are falsy, every string is truthy
AmountTruthy(a) == \/ a.k \in {"str", "bad"}
                   \/ a.k = "num" /\ a.c # 0

\* float(a) succeeds
Coercible(a) == a.k \in {"num", "str"}

\* float(a), with the except branch giving 0.0
FloatOrZero(a) == IF Coercible(a) THEN Num(a.c) ELSE Num(0)

----------------------------------------------------------------------------
(* Item deduplication: finalize_and_add_po, main.py 323-343 *)

\* variant: the article code is preferred to the barcode
ItemKey_ArticleFirst(item) ==
    LET barcode == Strip(StrOrEmpty(item.barcode))
        article_code == Strip(StrOrEmpty(item.article_code))
    IN  IF article_code # <<>> THEN article_code ELSE barcode

\* item_key = barcode if barcode else article_code, both str(... or "").strip()
ItemKey(item) ==
    LET barcode == Strip(StrOrEmpty(item.barcode))
        article_code == Strip(StrOrEmpty(item.article_code))
    IN  IF barcode # <<>> THEN barcode ELSE article_code

\* variant: the empty key is remembered like any other, so a second item without
\* barcode and article code is dropped
RECURSIVE DedupeLoop_EmptyKeySeen(_, _, _)
DedupeLoop_EmptyKeySeen(items, seen_items, unique_items) ==
    IF items = <<>> THEN unique_items
    ELSE LET item == Head(items)
             item_key == ItemKey(item)
         IN  IF item_key \in seen_items
             THEN DedupeLoop_EmptyKeySeen(Tail(items), seen_items, unique_items)
             ELSE DedupeLoop_EmptyKeySeen(Tail(items), seen_items \cup {item_key},
                                          Append(unique_items, item))

\* the loop over items with seen_items and unique_items
RECURSIVE DedupeLoop(_, _, _)
DedupeLoop(items, seen_items, unique_items) ==
    IF items = <<>> THEN unique_items
    ELSE LET item == Head(items)
             item_key == ItemKey(item)
         IN  IF item_key # <<>> /\ item_key \in seen_items
             THEN DedupeLoop(Tail(items), seen_items, unique_items)
             ELSE DedupeLoop(Tail(items),
                             IF item_key # <<>> THEN seen_items \cup {item_key}
                                                ELSE seen_items,
                             Append(unique_items, item))

DedupeItems(items) == DedupeLoop(items, {}, <<>>)

----------------------------------------------------------------------------
(* Amount reconciliation: calculate_items_sum and flag_amount_mismatch *)

\* tolerance = 1.0 currency unit, in cents
Tolerance == 100

\* item.get("total_price") or item.get("total") or 0
ItemTotal(item) ==
    IF AmountTruthy(item.total_price) THEN item.total_price
    ELSE IF AmountTruthy(item.total) THEN item.total
    ELSE Num(0)

RECURSIVE calculate_items_sum(_)
calculate_items_sum(items) ==
    IF items = <<>> THEN 0
    ELSE LET item_total == ItemTotal(Head(items))
         IN  (IF Coercible(item_total) THEN item_total.c ELSE 0)
             + calculate_items_sum(Tail(items))

Abs(n) == IF n < 0 THEN 0 - n ELSE n

\* f"{x:.2f}" of an amount held in cents
Fmt2(c) == [neg |-> c < 0, units |-> Abs(c) \div 100, cents |-> Abs(c) % 100]

NoReason == [set |-> FALSE, items_sum |-> Fmt2(0), total_amount |-> Fmt2(0),
             difference |-> Fmt2(0)]

FlagReason(items_sum, total_amount, difference) ==
    [set |-> TRUE, items_sum |-> Fmt2(items_sum), total_amount |-> Fmt2(total_amount),
     difference |-> Fmt2(difference)]

\* variant: a difference of exactly the tolerance is not a mismatch
Mismatch_Strict(difference, total_amount) == difference > Tolerance /\ total_amount > 0

\* difference >= tolerance and total_amount > 0
Mismatch(difference, total_amount) == difference >= Tolerance /\ total_amount > 0

flag_amount_mismatch(doc) ==
    IF doc.items = <<>> THEN doc
    ELSE LET items_sum == calculate_items_sum(doc.items)
             total_amount == IF Coercible(doc.total_amount) THEN doc.total_amount.c ELSE 0
             difference == Abs(items_sum - total_amount)
         IN  IF Mismatch(difference, total_amount)
             THEN [doc EXCEPT !.is_flagged = TRUE,
                              !.flag_reason = FlagReason(items_sum, total_amount, difference)]
             ELSE [doc EXCEPT !.is_flagged = FALSE, !.flag_reason = NoReason]

----------------------------------------------------------------------------
(* validate_is_po, utils.py 306-332 *)

Invoice == <<"i","n","v","o","i","c","e">>
Receipt == <<"r","e","c","e","i","p","t">>
Packing == <<"p","a","c","k","i","n","g">>

validate_is_po(doc) ==
    LET has_retailer == Truthy(doc.retailer) \/ Truthy(doc.retailer_name)
        has_items == doc.items # <<>>
        doc_type == Lower(PyStr(doc.document_type))
    IN  /\ has_retailer
        /\ has_items
        /\ ~ (Contains(doc_type, Invoice) \/ Contains(doc_type, Receipt)
              \/ Contains(doc_type, Packing))

----------------------------------------------------------------------------
(* Retailer matching: get_standard_retailer_info, utils.py 403-554 *)
(*                                                                         *)
(* A row of potential_matches is [retailers_name, debtor_code,             *)
(* branch_code, delivery_address, branch, ev].  ev records the outcome,    *)
(* for this row and the extracted values, of each string test of the       *)
(* scoring loop that reads the row:                                        *)
(*   branch   "contains"  po_branch_name_clean in csv_branch_clean         *)
(*            "contained" csv_branch_clean in po_branch_name_clean         *)
(*            "fuzzy"     longest common block longer than 6               *)
(*            "none"      none of the three                                *)
(*   paren    the row's branch holds "(digits)" and the digits occur in    *)
(*            the extracted branch name or address                         *)
(*   unique   unique_location is longer than 4 and occurs in               *)
(*            po_name_clean + po_address_clean                             *)
(*   ratio    "high" > 0.4, "mid" > 0.2, "low" otherwise (or no tokens)    *)
(*   mydin_kw a MYDIN location keyword occurs on both sides                *)
(*   cs_kw    a CS GROCER location keyword occurs in both branch names     *)
(* The tests that read only the extracted values are computed.             *)

S_MYDIN == <<"M","Y","D","I","N">>
S_GIANT == <<"G","I","A","N","T">>
S_CS == <<"C","S">>
S_GROCER == <<"G","R","O","C","E","R">>
S_LOTUS == <<"L","O","T","U","S">>
S_UNKNOWN == <<"U","N","K","N","O","W","N">>

WBranchContains == 70
WBranchContained == 60
WBranchFuzzy == 40
WParenCode == 55
WUniqueLocation == 50
WRatioHigh == 40
WRatioMid == 20
WMydinKeyword == 40
WCsKeyword == 50
MaxFinalScore == 100
DefaultThreshold == 15
SparseThreshold == 10
MinBranchLen == 5

po_name_upper(extracted_name) == Upper(PyStr(extracted_name))

po_branch_name_upper(extracted_branch_name) ==
    IF Truthy(extracted_branch_name) THEN Upper(PyStr(extracted_branch_name)) ELSE <<>>

\* lines 415-417: the extracted values, normalized
po_name_clean(extracted_name) == ReSubNonAlnum(po_name_upper(extracted_name))

po_branch_name_clean(extracted_branch_name) ==
    ReSubNonAlnum(po_branch_name_upper(extracted_branch_name))

\* po_branch_name_clean and len(po_branch_name_clean) > 5
BranchGuard(extracted_branch_name) ==
    /\ po_branch_name_clean(extracted_branch_name) # <<>>
    /\ Len(po_branch_name_clean(extracted_branch_name)) > MinBranchLen

\* the tests of the loop and of the threshold that read only the extracted values
Query(extracted_name, extracted_branch_name) ==
    LET up == po_name_upper(extracted_name)
    IN  [mydin |-> Contains(up, S_MYDIN),
         giant |-> Contains(up, S_GIANT),
         cs_grocer |-> Contains(up, S_CS) /\ Contains(up, S_GROCER),
         lotus |-> Contains(up, S_LOTUS),
         branch_guard |-> BranchGuard(extracted_branch_name)]

\* variant: the containment of the extracted branch name earns the smallest weight
BranchScore_ContainsLeast(q, ev) ==
    IF ~ q.branch_guard THEN 0
    ELSE IF ev.branch = "contains" THEN WRatioMid
    ELSE IF ev.branch = "contained" THEN WBranchContained
    ELSE IF ev.branch = "fuzzy" THEN WBranchFuzzy
    ELSE 0

\* lines 458-467
BranchScore(q, ev) ==
    IF ~ q.branch_guard THEN 0
    ELSE IF ev.branch = "contains" THEN WBranchContains
    ELSE IF ev.branch = "contained" THEN WBranchContained
    ELSE IF ev.branch = "fuzzy" THEN WBranchFuzzy
    ELSE 0

\* lines 492-497
RatioScore(ev) ==
    IF ev.ratio = "high" THEN WRatioHigh
    ELSE IF ev.ratio = "mid" THEN WRatioMid
    ELSE 0

\* the body of the loop over potential_matches, up to the comparison with max_score
RowScore(q, ev) ==
      BranchScore(q, ev)
    + (IF q.lotus /\ ev.paren THEN WParenCode ELSE 0)
    + (IF ev.unique THEN WUniqueLocation ELSE 0)
    + RatioScore(ev)
    + (IF q.mydin /\ ev.mydin_kw THEN WMydinKeyword ELSE 0)
    + (IF q.cs_grocer /\ ev.cs_kw THEN WCsKeyword ELSE 0)

NoBest == [max_score |-> 0, best_match |-> <<>>]

\* if score > max_score: max_score = score; best_match = row
TrackMax(acc, score, row) ==
    IF score > acc.max_score THEN [max_score |-> score, best_match |-> <<row>>] ELSE acc

\* the loop over potential_matches; a candidate is [row, ev]
RECURSIVE ScanRows(_, _, _)
ScanRows(q, cands, acc) ==
    IF cands = <<>> THEN acc
    ELSE ScanRows(q, Tail(cands),
                  TrackMax(acc, RowScore(q, Head(cands).ev), Head(cands).row))

\* variant: the accumulated score is returned as it is
FinalScore_Uncapped(max_score) == max_score

\* final_score = min(100, max_score)
FinalScore(max_score) == IF max_score > MaxFinalScore THEN MaxFinalScore ELSE max_score

\* variant: the acceptance threshold is 30 for every retailer
MinThreshold_Thirty(q) == 30

\* lines 530-534
MinThreshold(q) ==
    IF q.cs_grocer THEN SparseThreshold
    ELSE IF q.mydin \/ q.giant THEN SparseThreshold
    ELSE DefaultThreshold

NoMatch(extracted_name, extracted_address) ==
    [name |-> extracted_name, debtor_code |-> None, branch_code |-> None,
     address |-> extracted_address, branch |-> None, score |-> 0]

\* max_score < min_threshold or best_match is None
BelowThreshold(q, acc) == acc.max_score < MinThreshold(q) \/ acc.best_match = <<>>

\* lines 528-554: threshold test and the returned tuple
MatchReturn(q, extracted_name, extracted_address, acc) ==
    IF BelowThreshold(q, acc)
    THEN NoMatch(extracted_name, extracted_address)
    ELSE LET best_match == acc.best_match[1]
         IN  [name |-> best_match.retailers_name,
              debtor_code |-> best_match.debtor_code,
              branch_code |-> best_match.branch_code,
              address |-> best_match.delivery_address,
              branch |-> best_match.branch,
              score |-> FinalScore(acc.max_score)]

get_standard_retailer_info(extracted_name, extracted_address, extracted_branch_name, cands) ==
    LET q == Query(extracted_name, extracted_branch_name)
    IN  MatchReturn(q, extracted_name, extracted_address, ScanRows(q, cands, NoBest))

----------------------------------------------------------------------------
(* enrich_po_data, utils.py 557-628 *)

\* raw_po.lstrip("O").lstrip("0").replace("ONO", "").strip()
NormalizePoNumber(po_number) ==
    Strip(Remove(LStripChars(LStripChars(PyStr(po_number), {"O"}), {"0"}),
                 <<"O","N","O">>))

EnrichItem(item) == [item EXCEPT !.total_price = FloatOrZero(item.total_price)]

\* extracted_name = po_data.get("retailer") or "UNKNOWN"
ExtractedName(po_data) == IF Truthy(po_data.retailer) THEN po_data.retailer ELSE S_UNKNOWN

\* lines 563-572: the call of get_standard_retailer_info
MatchFor(po_data, cands) ==
    get_standard_retailer_info(ExtractedName(po_data), po_data.delivery_address,
                               po_data.branch_name, cands)

\* lines 574-628, m being the tuple the matcher returned
EnrichWith(po_data, m) ==
    LET extracted_name == ExtractedName(po_data)
        extracted_branch_addr == po_data.delivery_address
        extracted_branch_name == po_data.branch_name
    IN  [po_number |-> NormalizePoNumber(po_data.po_number),
         retailer |-> po_data.retailer,
         items |-> [i \in 1..Len(po_data.items) |-> EnrichItem(po_data.items[i])],
         total_amount |-> FloatOrZero(po_data.total_amount),
         document_type |-> po_data.document_type,
         delivery_address |-> IF Truthy(m.address) THEN m.address
                              ELSE po_data.delivery_address,
         branch_name |-> IF Truthy(m.branch) THEN m.branch
                         ELSE IF Truthy(extracted_branch_name) THEN extracted_branch_name
                         ELSE IF Truthy(extracted_branch_addr) THEN extracted_branch_addr
                         ELSE po_data.branch_name,
         retailer_name |-> IF Truthy(m.name) THEN m.name ELSE extracted_name,
         debtor_code |-> IF Truthy(m.debtor_code) THEN m.debtor_code ELSE None,
         branch_code |-> IF Truthy(m.branch_code) THEN m.branch_code ELSE None,
         reliability_score |-> m.score,
         is_flagged |-> FALSE,
         flag_reason |-> NoReason]


enrich_po_data(po_data, cands) == EnrichWith(po_data, MatchFor(po_data, cands))

----------------------------------------------------------------------------
(* Inputs: what the extractor (parse_with_gemini) and the catalog hold *)

Item(barcode, article_code, total_price, total) ==
    [barcode |-> barcode, article_code |-> article_code,
     total_price |-> total_price, total |-> total]

I1 == Item(<<"8","8","1">>, <<"A","1">>, Num(2000), NoAmount)
I2 == Item(None, <<"A","2">>, NumStr(3000), NoAmount)
I3 == Item(<<" ","8","8","1">>, <<"A","3">>, Num(5000), NoAmount)
I4 == Item(None, <<>>, BadStr, NoAmount)
I5 == Item(None, <<"8","8","1">>, Num(2000), NoAmount)
I6 == Item(<<"8","8","2">>, <<"A","1">>, Num(7000), NoAmount)
I7 == Item(<<"8","8","3">>, <<"8","8","1">>, Num(1000), NoAmount)

ItemUniverse == {I1, I2, I3, I4, I5, I6, I7}

RECURSIVE SeqsUpTo(_, _)
SeqsUpTo(S, n) ==
    IF n = 0 THEN {<<>>}
    ELSE LET shorter == SeqsUpTo(S, n - 1)
         IN  shorter \cup {Append(q, x) : q \in {r \in shorter : Len(r) = n - 1}, x \in S}

Frag(po_number, retailer, items, total_amount, document_type, delivery_address, branch_name) ==
    [po_number |-> po_number, retailer |-> retailer, items |-> items,
     total_amount |-> total_amount, document_type |-> document_type,
     delivery_address |-> delivery_address, branch_name |-> branch_name,
     page_num |-> 0]

PO_12345 == <<"1","2","3","4","5">>
PO_A1 == <<"A","1">>
PO_A2 == <<"A","2">>
PO_null == <<"n","u","l","l">>
R_Giant == <<"G","i","a","n","t">>
R_GIANT_sp == <<"G","I","A","N","T"," ">>
Addr_KL == <<"K","L">>
Br_Kajang == <<"K","a","j","a","n","g"," ","M","e","w","a","h">>
T_Invoice == <<"I","n","v","o","i","c","e">>

F_C1a == Frag(PO_12345, S_MYDIN, <<I1, I2, I6>>, NumStr(5000), None, Addr_KL, Br_Kajang)
F_C1b == Frag(None, S_MYDIN, <<I4, I3>>, NumStr(12000), None, None, None)
F_A1 == Frag(PO_A1, R_Giant, <<I1>>, NoAmount, None, None, None)
F_A2 == Frag(PO_A2, S_GIANT, <<I2>>, Num(7000), None, Addr_KL, None)
F_A1b == Frag(PO_A1, R_GIANT_sp, <<I3>>, BadStr, None, None, None)
F_null == Frag(PO_null, <<>>, <<I4>>, NoAmount, None, None, None)
F_noRet == Frag(PO_A2, None, <<I1, I5>>, Num(2000), None, None, None)
F_inv == Frag(<<>>, S_GIANT, <<>>, NoAmount, T_Invoice, None, None)
F_big == Frag(PO_12345, S_MYDIN, <<I2, I2>>, Num(12000), None, None, Br_Kajang)

Fragments == {F_C1a, F_C1b, F_A1, F_A2, F_A1b, F_null, F_noRet, F_inv, F_big}

\* what parse_with_gemini returns for one page; None and [] are both <<>>
PageResults == {<<>>} \cup {<<f>> : f \in Fragments}
               \cup {<<F_A1, F_A2>>, <<F_C1a, F_C1b>>}

\* what process_image hands back before enrichment; None and [] are both <<>>
ImageResults == {<<>>} \cup {<<f>> : f \in Fragments} \cup {<<F_A1, F_noRet>>}

Ev(branch, paren, unique, ratio, mydin_kw, cs_kw) ==
    [branch |-> branch, paren |-> paren, unique |-> unique, ratio |-> ratio,
     mydin_kw |-> mydin_kw, cs_kw |-> cs_kw]

EvSet == {Ev(b, p, u, r, m, c) : b \in {"contains", "contained", "fuzzy", "none"},
                                 p \in BOOLEAN, u \in BOOLEAN,
                                 r \in {"high", "mid", "low"},
                                 m \in BOOLEAN, c \in BOOLEAN}

Row(n) ==
    [retailers_name |-> <<"R", n>>,
     debtor_code |-> IF n = "1" THEN <<"D", n>> ELSE None,
     branch_code |-> <<"B", n>>,
     delivery_address |-> <<"A", n>>,
     branch |-> <<"L", n>>]

Cand(n, ev) == [row |-> Row(n), ev |-> ev]

RowIds == {"1", "2"}

RowWeak == Cand("1", Ev("none", FALSE, FALSE, "low", FALSE, FALSE))
RowMid == Cand("2", Ev("none", FALSE, FALSE, "mid", FALSE, FALSE))
RowStrong == Cand("1", Ev("contains", TRUE, TRUE, "high", TRUE, TRUE))

\* catalogs the batch workers run against: empty, no evidence, weak and strong evidence
BatchPools == {<<>>, <<RowWeak>>, <<RowMid, RowStrong>>}

----------------------------------------------------------------------------
(* Merge key: process_batch_file, main.py 420-441 *)

S_null == <<"n","u","l","l">>
S_none == <<"n","o","n","e">>
S_NO_PO == <<"N","O","_","P","O","_">>
S_bar == <<"|">>

DigitSeq == <<"0","1","2","3","4","5","6","7","8","9">>

RECURSIVE IntStr(_)
IntStr(n) == IF n < 10 THEN <<DigitSeq[n + 1]>>
             ELSE IntStr(n \div 10) \o <<DigitSeq[(n % 10) + 1]>>

\* po_num = str(doc.get("po_number") or "").strip()
PoNum(doc) == Strip(StrOrEmpty(doc.po_number))

\* retailer = str(doc.get("retailer") or "").strip().upper()
RetailerOf(doc) == Upper(Strip(StrOrEmpty(doc.retailer)))

\* po_num and po_num.lower() not in ["null", "none", ""]
HasPoNumber(doc) ==
    PoNum(doc) # <<>> /\ Lower(PoNum(doc)) \notin {S_null, S_none, <<>>}

\* variant: the retailer enters the key trimmed but in its original case
PoKey_NoUpper(doc) ==
    IF RetailerOf(doc) # <<>>
    THEN PoNum(doc) \o S_bar \o Strip(StrOrEmpty(doc.retailer))
    ELSE PoNum(doc)

\* f"{po_num}|{retailer}" if retailer else po_num
PoKey(doc) ==
    IF RetailerOf(doc) # <<>> THEN PoNum(doc) \o S_bar \o RetailerOf(doc) ELSE PoNum(doc)

\* f"NO_PO_{len(merged_docs_map)+1}|{retailer}"
PlaceholderKey(doc, map) == S_NO_PO \o IntStr(Len(map) + 1) \o S_bar \o RetailerOf(doc)

\* variant: only equal retailers match
RetailerMatches_EqualOnly(existing, doc) == RetailerOf(existing) = RetailerOf(doc)

\* existing_retailer == retailer or not retailer
RetailerMatches(existing, doc) ==
    RetailerOf(existing) = RetailerOf(doc) \/ RetailerOf(doc) = <<>>

\* positions of the open groups a no-PO fragment may attach to
Matching(doc, map) == {i \in 1..Len(map) : RetailerMatches(map[i].doc, doc)}

\* for key in reversed(list(merged_docs_map.keys())): the last inserted match
MatchingIndex(doc, map) ==
    CHOOSE i \in Matching(doc, map) : \A j \in Matching(doc, map) : j <= i

IsContinuation(doc, map) == ~ HasPoNumber(doc) /\ Matching(doc, map) # {}

MergeKey(doc, map) == IF HasPoNumber(doc) THEN PoKey(doc) ELSE PlaceholderKey(doc, map)

KeyIndex(key, map) == {i \in 1..Len(map) : map[i].key = key}

----------------------------------------------------------------------------
(* Merge transition: process_batch_file, main.py 444-468 *)

\* lines 451-461
MergeTotal(current_total, new_total) ==
    IF ~ AmountTruthy(new_total) THEN current_total
    ELSE IF ~ Coercible(new_total) THEN current_total
    ELSE IF current_total.k = "bad" THEN current_total
    ELSE IF new_total.c > current_total.c THEN Num(new_total.c)
    ELSE current_total

\* variant: a truthy value of the fragment always replaces the value of the group
Fill_LastWins(t, v) == IF Truthy(v) THEN v ELSE t

\* if not target.get(k) and v: target[k] = v
Fill(t, v) == IF ~ Truthy(t) /\ Truthy(v) THEN v ELSE t

MergeInto(target, doc) ==
    [po_number |-> Fill(target.po_number, doc.po_number),
     retailer |-> Fill(target.retailer, doc.retailer),
     items |-> target.items \o doc.items,
     total_amount |-> MergeTotal(target.total_amount, doc.total_amount),
     document_type |-> Fill(target.document_type, doc.document_type),
     delivery_address |-> Fill(target.delivery_address, doc.delivery_address),
     branch_name |-> Fill(target.branch_name, doc.branch_name),
     page_num |-> target.page_num]

\* variant: a continuation page is merged like a page of the group's key
AttachItems_Merge(target_doc, doc) == MergeInto(target_doc, doc)

\* lines 436-440: a continuation page only extends the items
AttachItems(target_doc, doc) == [target_doc EXCEPT !.items = target_doc.items \o doc.items]

----------------------------------------------------------------------------
(* finalize_and_add_po, main.py 317-366 *)

\* utils.py defines no fix_billing_address: the call at main.py 346 raises AttributeError
FixBillingAddressDefined == FALSE

E_attr == "module 'utils' has no attribute 'fix_billing_address'"

NoError == "None"

\* lines 323-345: the document after deduplication and enrichment
Prepared(doc, rows) ==
    enrich_po_data([doc EXCEPT !.items = DedupeItems(doc.items)], rows)

\* lines 358-363: what is appended to pos, <<>> when validation rejects the document
Emitted(doc) == IF validate_is_po(doc) THEN <<flag_amount_mismatch(doc)>> ELSE <<>>

\* finalize_and_add_po raises before it reaches validation
FinalizeRaises == ~ FixBillingAddressDefined

FinalizedEntry(key, doc, rows, where) ==
    [key |-> key, doc |-> doc, rows |-> rows, where |-> where, page |-> current_page]

\* a run of finalize_and_add_po over the groups gs, all calls returning normally
RECURSIVE EmitAll(_, _)
EmitAll(gs, rows) ==
    IF gs = <<>> THEN <<>>
    ELSE Emitted(Prepared(Head(gs).doc, rows)) \o EmitAll(Tail(gs), rows)

----------------------------------------------------------------------------
(* The batch record and its workers *)

IdleFun == arg = <<>> /\ res = <<>> /\ fstep = "off"

Init ==
    /\ kind = "none"
    /\ pc = "idle"
    /\ status = "none"
    /\ current_page = 0
    /\ total_pages = 0
    /\ pos = <<>>
    /\ error = NoError
    /\ page_errors = <<>>
    /\ merged_docs_map = <<>>
    /\ page_results = <<>>
    /\ results = <<>>
    /\ fed = <<>>
    /\ finalized = <<>>
    /\ IdleFun

\* upload_batch, main.py 581-607: the record is created and the worker thread started
UploadBatch ==
    /\ pc = "idle"
    /\ \E k \in {"pdf", "image"} :
          /\ kind' = k
          /\ pc' = IF k = "pdf" THEN "open" ELSE "img_open"
    /\ status' = "processing"
    /\ current_page' = 0
    /\ total_pages' = 0
    /\ pos' = <<>>
    /\ error' = NoError
    /\ page_errors' = <<>>
    /\ UNCHANGED <<merged_docs_map, page_results, results, fed, finalized, funVars>>

\* main.py 371-378: the file is opened and total_pages published
PdfOpen ==
    /\ pc = "open"
    /\ \E n \in 0..MaxPages : total_pages' = n
    /\ merged_docs_map' = <<>>
    /\ pc' = "loop"
    /\ UNCHANGED <<kind, status, current_page, pos, error, page_errors, page_results,
                   results, fed, finalized, funVars>>

\* str(e) of an exception raised by pdfplumber
E_open == "cannot open pdf"
E_page == "cannot extract page"

\* variant: the outer except sets the status and leaves error as it was
PdfOpenRaises_NoMessage ==
    /\ pc = "open"
    /\ status' = "error"
    /\ pc' = "done"
    /\ UNCHANGED <<kind, current_page, total_pages, pos, error, page_errors,
                   merged_docs_map, page_results, results, fed, finalized, funVars>>

\* main.py 374 and 501-506: pdfplumber.open raises, the outer except sets status and error
PdfOpenRaises ==
    /\ pc = "open"
    /\ status' = "error"
    /\ error' = E_open
    /\ pc' = "done"
    /\ UNCHANGED <<kind, current_page, total_pages, pos, page_errors, merged_docs_map,
                   page_results, results, fed, finalized, funVars>>

\* main.py 380-384: the next page is entered and current_page published
PageBegin ==
    /\ pc = "loop"
    /\ current_page < total_pages
    /\ current_page' = current_page + 1
    /\ pc' = "extract"
    /\ UNCHANGED <<kind, status, total_pages, pos, error, page_errors, merged_docs_map,
                   page_results, results, fed, finalized, funVars>>

\* variant: skipping a page steps back to the page before it
SkipScannedPage_Rewind ==
    /\ pc = "extract"
    /\ current_page' = current_page - 1
    /\ pc' = "loop"
    /\ UNCHANGED <<kind, status, total_pages, pos, error, page_errors,
                   merged_docs_map, page_results, results, fed, finalized, funVars>>

\* main.py 387-391: a page with fewer than 50 characters of text is skipped
SkipScannedPage ==
    /\ pc = "extract"
    /\ pc' = "loop"
    /\ UNCHANGED <<kind, status, current_page, total_pages, pos, error, page_errors,
                   merged_docs_map, page_results, results, fed, finalized, funVars>>

\* variant: the except branch of the page also marks the batch as failed
PageRaises_StatusError ==
    /\ pc = "extract"
    /\ page_errors' = Append(page_errors, [page |-> current_page, error |-> E_page])
    /\ status' = "error"
    /\ pc' = "loop"
    /\ UNCHANGED <<kind, current_page, total_pages, pos, error, merged_docs_map,
                   page_results, results, fed, finalized, funVars>>

\* main.py 387 and 483-492: page.extract_text raises, the except branch of the page
\* records the error and the loop goes on
PageRaises ==
    /\ pc = "extract"
    /\ page_errors' = Append(page_errors, [page |-> current_page, error |-> E_page])
    /\ pc' = "loop"
    /\ UNCHANGED <<kind, status, current_page, total_pages, pos, error, merged_docs_map,
                   page_results, results, fed, finalized, funVars>>

\* main.py 412-418: the extractor answers; every document gets its _page_num
ExtractPage ==
    /\ pc = "extract"
    /\ \E r \in PageResults :
          LET tagged == [i \in 1..Len(r) |-> [r[i] EXCEPT !.page_num = current_page]]
          IN  /\ page_results' = tagged
              /\ fed' = fed \o tagged
    /\ pc' = "docs"
    /\ UNCHANGED <<kind, status, current_page, total_pages, pos, error, page_errors,
                   merged_docs_map, results, finalized, funVars>>

\* variant: a page without documents ends the run with status error
PageDone_Abort ==
    /\ pc = "docs"
    /\ page_results = <<>>
    /\ status' = "error"
    /\ pc' = "done"
    /\ UNCHANGED <<kind, current_page, total_pages, pos, error, page_errors,
                   merged_docs_map, page_results, results, fed, finalized, funVars>>

\* main.py 416 / 480-481: no document is left on this page
PageDone ==
    /\ pc = "docs"
    /\ page_results = <<>>
    /\ pc' = "loop"
    /\ UNCHANGED <<kind, status, current_page, total_pages, pos, error, page_errors,
                   merged_docs_map, page_results, results, fed, finalized, funVars>>

\* main.py 426-440: a document without PO number joins the last matching open group
AttachContinuation ==
    /\ pc = "docs"
    /\ page_results # <<>>
    /\ LET doc == Head(page_results)
       IN  /\ IsContinuation(doc, merged_docs_map)
           /\ LET i == MatchingIndex(doc, merged_docs_map)
              IN  merged_docs_map' =
                     [merged_docs_map EXCEPT ![i].doc = AttachItems(@, doc)]
    /\ page_results' = Tail(page_results)
    /\ UNCHANGED <<kind, pc, status, current_page, total_pages, pos, error, page_errors,
                   results, fed, finalized, funVars>>

\* main.py 444-468: the document's key is open
MergeSameKey ==
    /\ pc = "docs"
    /\ page_results # <<>>
    /\ LET doc == Head(page_results)
           merge_key == MergeKey(doc, merged_docs_map)
       IN  /\ ~ IsContinuation(doc, merged_docs_map)
           /\ KeyIndex(merge_key, merged_docs_map) # {}
           /\ LET i == CHOOSE i \in KeyIndex(merge_key, merged_docs_map) : TRUE
              IN  merged_docs_map' =
                     [merged_docs_map EXCEPT ![i].doc = MergeInto(@, doc)]
    /\ page_results' = Tail(page_results)
    /\ UNCHANGED <<kind, pc, status, current_page, total_pages, pos, error, page_errors,
                   results, fed, finalized, funVars>>

\* main.py 469-479 with nothing open: the document starts the first group
OpenFirstGroup ==
    /\ pc = "docs"
    /\ page_results # <<>>
    /\ merged_docs_map = <<>>
    /\ LET doc == Head(page_results)
       IN  merged_docs_map' = <<[key |-> MergeKey(doc, merged_docs_map), doc |-> doc]>>
    /\ page_results' = Tail(page_results)
    /\ UNCHANGED <<kind, pc, status, current_page, total_pages, pos, error, page_errors,
                   results, fed, finalized, funVars>>

\* main.py 469-479 with a group open under another key: the open groups are popped
\* and finalized, then the document starts the new group.  When finalize_and_add_po
\* raises, the first popped group is lost, the except branch of lines 483-492 records
\* the page error and the rest of the page is abandoned.
OpenNewGroup ==
    /\ pc = "docs"
    /\ page_results # <<>>
    /\ merged_docs_map # <<>>
    /\ LET doc == Head(page_results)
           merge_key == MergeKey(doc, merged_docs_map)
       IN  /\ ~ IsContinuation(doc, merged_docs_map)
           /\ KeyIndex(merge_key, merged_docs_map) = {}
           /\ \E rows \in BatchPools :
                 IF FinalizeRaises
                 THEN /\ finalized' = Append(finalized,
                                             FinalizedEntry(merged_docs_map[1].key,
                                                            merged_docs_map[1].doc,
                                                            rows, "new_key"))
                      /\ merged_docs_map' = Tail(merged_docs_map)
                      /\ page_errors' = Append(page_errors,
                                               [page |-> current_page, error |-> E_attr])
                      /\ page_results' = <<>>
                      /\ pc' = "loop"
                      /\ pos' = pos
                 ELSE /\ finalized' = finalized \o
                            [i \in 1..Len(merged_docs_map) |->
                                FinalizedEntry(merged_docs_map[i].key,
                                               merged_docs_map[i].doc, rows, "new_key")]
                      /\ pos' = pos \o EmitAll(merged_docs_map, rows)
                      /\ merged_docs_map' = <<[key |-> merge_key, doc |-> doc]>>
                      /\ page_results' = Tail(page_results)
                      /\ page_errors' = page_errors
                      /\ pc' = pc
    /\ UNCHANGED <<kind, status, current_page, total_pages, error, results, fed, funVars>>

\* main.py 494-509: after the last page the remaining groups are finalized; an
\* exception there reaches the outer except, which sets status and error
EndOfStream ==
    /\ pc = "loop"
    /\ current_page >= total_pages
    /\ \E rows \in BatchPools :
          IF merged_docs_map # <<>> /\ FinalizeRaises
          THEN /\ finalized' = Append(finalized,
                                      FinalizedEntry(merged_docs_map[1].key,
                                                     merged_docs_map[1].doc, rows, "end"))
               /\ status' = "error"
               /\ error' = E_attr
               /\ pos' = pos
          ELSE /\ finalized' = finalized \o
                     [i \in 1..Len(merged_docs_map) |->
                         FinalizedEntry(merged_docs_map[i].key, merged_docs_map[i].doc,
                                        rows, "end")]
               /\ pos' = pos \o EmitAll(merged_docs_map, rows)
               /\ status' = "complete"
               /\ error' = error
    /\ pc' = "done"
    /\ UNCHANGED <<kind, current_page, total_pages, page_errors, merged_docs_map,
                   page_results, results, fed, funVars>>

\* process_batch_image, main.py 513-520: page counters, then process_image, which
\* enriches every document it extracted (utils.py 955-962)
ImageExtract ==
    /\ pc = "img_open"
    /\ total_pages' = 1
    /\ current_page' = 1
    /\ \E r \in ImageResults, rows \in BatchPools :
          /\ results' = [i \in 1..Len(r) |-> enrich_po_data(r[i], rows)]
          /\ fed' = fed \o r
    /\ pc' = "img_docs"
    /\ UNCHANGED <<kind, status, pos, error, page_errors, merged_docs_map, page_results,
                   finalized, funVars>>

\* variant: a valid document is put in front of the documents already in pos
ImageAddDoc_Prepend ==
    /\ pc = "img_docs"
    /\ results # <<>>
    /\ pos' = Emitted(Head(results)) \o pos
    /\ results' = Tail(results)
    /\ UNCHANGED <<kind, pc, status, current_page, total_pages, error, page_errors,
                   merged_docs_map, page_results, fed, finalized, funVars>>

\* main.py 523-540: one extracted document is validated, flagged and appended
ImageAddDoc ==
    /\ pc = "img_docs"
    /\ results # <<>>
    /\ pos' = pos \o Emitted(Head(results))
    /\ results' = Tail(results)
    /\ UNCHANGED <<kind, pc, status, current_page, total_pages, error, page_errors,
                   merged_docs_map, page_results, fed, finalized, funVars>>

\* variant: the completion of the image worker also stores a message in error
ImageComplete_Message ==
    /\ pc = "img_docs"
    /\ results = <<>>
    /\ status' = "complete"
    /\ error' = "image processed"
    /\ pc' = "done"
    /\ UNCHANGED <<kind, current_page, total_pages, pos, page_errors,
                   merged_docs_map, page_results, results, fed, finalized, funVars>>

\* main.py 542-544
ImageComplete ==
    /\ pc = "img_docs"
    /\ results = <<>>
    /\ status' = "complete"
    /\ pc' = "done"
    /\ UNCHANGED <<kind, current_page, total_pages, pos, error, page_errors,
                   merged_docs_map, page_results, results, fed, finalized, funVars>>

Next ==
    \/ UploadBatch
    \/ PdfOpen
    \/ PdfOpenRaises
    \/ PageBegin
    \/ SkipScannedPage
    \/ PageRaises
    \/ ExtractPage
    \/ PageDone
    \/ AttachContinuation
    \/ MergeSameKey
    \/ OpenFirstGroup
    \/ OpenNewGroup
    \/ EndOfStream
    \/ ImageExtract
    \/ ImageAddDoc
    \/ ImageComplete

Spec == Init /\ [][Next]_vars

\* the worker is a thread of its own (main.py 596-607): once started it keeps being
\* scheduled, and every external call it makes returns
SpecLive == Init /\ [][Next]_vars /\ WF_vars(Next)

----------------------------------------------------------------------------
(* Specifications of the pure functions: the input is drawn by the initial *)
(* state and the function applied by the actions; the batch is not started *)

BatchOff ==
    /\ kind = "none"
    /\ pc = "off"
    /\ status = "none"
    /\ current_page = 0
    /\ total_pages = 0
    /\ pos = <<>>
    /\ error = NoError
    /\ page_errors = <<>>
    /\ merged_docs_map = <<>>
    /\ page_results = <<>>
    /\ results = <<>>
    /\ fed = <<>>
    /\ finalized = <<>>

(* Item deduplication *)

InitDedupe ==
    /\ BatchOff
    /\ arg \in SeqsUpTo(ItemUniverse, MaxItems)
    /\ res = <<>>
    /\ fstep = "in"

DedupeStep ==
    /\ fstep = "in"
    /\ res' = DedupeItems(arg)
    /\ fstep' = "out"
    /\ UNCHANGED <<arg, batchVars>>

\* deduplication of an already deduplicated list
DedupeAgain ==
    /\ fstep = "out"
    /\ arg' = res
    /\ res' = DedupeItems(res)
    /\ fstep' = "again"
    /\ UNCHANGED batchVars

NextDedupe == DedupeStep \/ DedupeAgain

SpecDedupe == InitDedupe /\ [][NextDedupe]_vars

(* flag_amount_mismatch *)

FlagItems == {Item(None, None, Num(10000), NoAmount),
              Item(None, None, Num(5000), NoAmount),
              Item(None, None, NumStr(5000), NoAmount),
              Item(None, None, BadStr, NoAmount),
              Item(None, None, NoAmount, Num(100))}

FlagTotals == {NoAmount, BadStr, Num(0), Num(0 - 500), Num(10099), Num(9899),
               NumStr(10100), Num(9900), Num(10000), NumStr(9901), Num(5000)}

StaleReason == FlagReason(1, 2, 1)

FlagDocs ==
    {[items |-> its, total_amount |-> t, is_flagged |-> f,
      flag_reason |-> IF f THEN StaleReason ELSE NoReason] :
        its \in SeqsUpTo(FlagItems, MaxItems), t \in FlagTotals, f \in BOOLEAN}

InitFlag ==
    /\ BatchOff
    /\ arg \in FlagDocs
    /\ res = <<>>
    /\ fstep = "in"

FlagStep ==
    /\ fstep = "in"
    /\ res' = flag_amount_mismatch(arg)
    /\ fstep' = "out"
    /\ UNCHANGED <<arg, batchVars>>

SpecFlag == InitFlag /\ [][FlagStep]_vars

(* get_standard_retailer_info and enrich_po_data; res.q holds the values    *)
(* computed from the extracted strings before the loop (utils.py 409-417)  *)

R_Mydin == <<"M","y","d","i","n">>
R_CsGrocer == <<"C","S"," ","G","r","o","c","e","r">>
R_Lotus == <<"L","o","t","u","s","s">>
R_All == <<"M","Y","D","I","N"," ","L","O","T","U","S"," ","C","S"," ","G","R","O","C","E","R">>
Br_KM == <<"K","M">>

MatchNames == {None, R_Mydin, R_Giant, R_CsGrocer, R_Lotus, R_All}

MatchBranches == {None, Br_KM, Br_Kajang}

MatchDocs == {Frag(PO_A1, r, <<I1>>, NumStr(5000), None, Addr_KL, b) :
                 r \in MatchNames, b \in MatchBranches}

InitMatch ==
    /\ BatchOff
    /\ arg \in MatchDocs
    /\ res = [q |-> Query(ExtractedName(arg), arg.branch_name),
              acc |-> NoBest, rows_checked |-> 0,
              ret |-> NoMatch(<<>>, <<>>), out |-> <<>>]
    /\ fstep = "scan"

\* one iteration of the loop over potential_matches, utils.py 448-526
MatchRow ==
    /\ fstep = "scan"
    /\ res.rows_checked < MaxRows
    /\ \E n \in RowIds, ev \in EvSet :
          res' = [res EXCEPT !.acc = TrackMax(@, RowScore(res.q, ev), Row(n)),
                             !.rows_checked = @ + 1]
    /\ UNCHANGED <<arg, fstep, batchVars>>

\* utils.py 528-554: the loop is over and the tuple returned
MatchFinish ==
    /\ fstep = "scan"
    /\ res' = [res EXCEPT
                 !.ret = MatchReturn(res.q, ExtractedName(arg), arg.delivery_address,
                                     res.acc)]
    /\ fstep' = "ret"
    /\ UNCHANGED <<arg, batchVars>>

\* utils.py 574-628: enrich_po_data stores what the matcher returned
MatchEnrich ==
    /\ fstep = "ret"
    /\ res' = [res EXCEPT !.out = <<EnrichWith(arg, res.ret)>>]
    /\ fstep' = "enriched"
    /\ UNCHANGED <<arg, batchVars>>

NextMatch == MatchRow \/ MatchFinish \/ MatchEnrich

SpecMatch == InitMatch /\ [][NextMatch]_vars

(* The polling path next to the worker: get_batch_status, main.py 620-639 *)

\* with batch_lock: the dict of the response is built from the record; status, the
\* counters and error are values, "pos" and "page_errors" are the lists of the record
\* themselves. res keeps what the record held while the lock was held.
PollRead ==
    /\ kind # "none"
    /\ fstep \in {"off", "served"}
    /\ res' = [status |-> status, current |-> current_page, total |-> total_pages,
               pos |-> pos, error |-> error, page_errors |-> page_errors]
    /\ arg' = <<>>
    /\ fstep' = "read"
    /\ UNCHANGED batchVars

\* the lock is released and the caller reads the returned dict: the two lists are
\* read as they are now
PollServe ==
    /\ fstep = "read"
    /\ arg' = [res EXCEPT !.pos = pos, !.page_errors = page_errors]
    /\ fstep' = "served"
    /\ UNCHANGED <<res, batchVars>>

NextPoll == Next \/ PollRead \/ PollServe

SpecPoll == Init /\ [][NextPoll]_vars

(* Merges into one group: process_batch_file, main.py 444-468 *)

\* total_amount values of the fragments: missing, zero, numbers, numeric strings and a
\* string float() rejects
MergeTotals == {NoAmount, Num(0), Num(5000), NumStr(5000), Num(7000), NumStr(12000), BadStr}

MergeFrag(items, total_amount) == Frag(PO_A1, S_GIANT, items, total_amount, None, None, None)

\* the first fragment of a key opens the group; arg keeps the totals met so far
InitMerge ==
    /\ BatchOff
    /\ \E t \in MergeTotals :
          /\ arg = <<t>>
          /\ res = MergeFrag(<<I1>>, t)
    /\ fstep = "merge"

\* a further fragment of the same key is merged into the group
MergeStep ==
    /\ fstep = "merge"
    /\ Len(arg) < MaxPages
    /\ \E t \in MergeTotals, items \in {<<>>, <<I2>>} :
          /\ res' = MergeInto(res, MergeFrag(items, t))
          /\ arg' = Append(arg, t)
    /\ UNCHANGED <<fstep, batchVars>>

SpecMerge == InitMerge /\ [][MergeStep]_vars

(* The matcher on one candidate under weaker and stronger evidence *)

\* the elif chain of lines 460-467 from the weakest to the strongest outcome
BranchRank(b) == CASE b = "none" -> 0 [] b = "fuzzy" -> 1 [] b = "contained" -> 2
                   [] b = "contains" -> 3

\* ratio <= 0.2, ratio > 0.2, ratio > 0.4
RatioRank(r) == CASE r = "low" -> 0 [] r = "mid" -> 1 [] r = "high" -> 2

\* every test that succeeds under e1 succeeds under e2
EvLeq(e1, e2) ==
    /\ BranchRank(e1.branch) <= BranchRank(e2.branch)
    /\ RatioRank(e1.ratio) <= RatioRank(e2.ratio)
    /\ e1.paren => e2.paren
    /\ e1.unique => e2.unique
    /\ e1.mydin_kw => e2.mydin_kw
    /\ e1.cs_kw => e2.cs_kw

\* the other catalog rows the candidate is scanned with
MonoOthers == {<<>>, <<RowMid>>, <<RowStrong>>}

InitMono ==
    /\ BatchOff
    /\ arg \in MatchDocs
    /\ res = [q |-> Query(ExtractedName(arg), arg.branch_name)]
    /\ fstep = "pair"

\* the matcher run twice on the same query and catalog, the candidate's tests
\* succeeding as in weak and as in strong
MonoScore ==
    /\ fstep = "pair"
    /\ \E others \in MonoOthers, weak \in EvSet, strong \in EvSet :
          /\ EvLeq(weak, strong)
          /\ res' = [q |-> res.q, weak |-> weak, strong |-> strong,
                     weak_score |-> RowScore(res.q, weak),
                     strong_score |-> RowScore(res.q, strong),
                     weak_ret |-> MatchReturn(res.q, ExtractedName(arg),
                                    arg.delivery_address,
                                    ScanRows(res.q, others \o <<Cand("2", weak)>>, NoBest)),
                     strong_ret |-> MatchReturn(res.q, ExtractedName(arg),
                                    arg.delivery_address,
                                    ScanRows(res.q, others \o <<Cand("2", strong)>>, NoBest))]
    /\ fstep' = "scored"
    /\ UNCHANGED <<arg, batchVars>>

SpecMono == InitMono /\ [][MonoScore]_vars

(* Text normalization *)

NormChars == {"g", "K", "l", "(", " ", "7"}

T_GiantKL == <<"G","i","a","n","t"," ","(","K","L",")">>
T_GIANT_KL == <<"G","I","A","N","T"," ","K","L">>

\* texts of the catalog columns and of the extracted fields
NormTexts == SeqsUpTo(NormChars, MaxLen) \cup {T_GiantKL, T_GIANT_KL}

InitNorm ==
    /\ BatchOff
    /\ arg \in NormTexts
    /\ res = <<>>
    /\ fstep = "in"

\* the catalog side: RETAILERS_DF[...].apply(clean_text)
NormStep ==
    /\ fstep = "in"
    /\ res' = clean_text(arg)
    /\ fstep' = "out"
    /\ UNCHANGED <<arg, batchVars>>

\* clean_text applied to its own output
NormAgain ==
    /\ fstep = "out"
    /\ arg' = res
    /\ res' = clean_text(res)
    /\ fstep' = "again"
    /\ UNCHANGED batchVars

NextNorm == NormStep \/ NormAgain

SpecNorm == InitNorm /\ [][NextNorm]_vars

----------------------------------------------------------------------------
(* Properties *)

Tag(f, p) == [f EXCEPT !.page_num = p]

\* the document process_batch_file would append for a group, had finalization returned
WouldEmit(e) == flag_amount_mismatch(Prepared(e.doc, e.rows))

InPos(d) == \E j \in 1..Len(pos) : pos[j] = d

\* C1: a two-page file whose page 1 yields PO "12345", retailer MYDIN, 3 items, total
\* "50.00" and whose page 2 yields no PO number, retailer MYDIN, 2 items, total
\* "120.00" ends with exactly one document in pos: po_number "12345", built from a
\* group of 5 items before deduplication, total_amount 120.00.
C1_TwoPageScenario ==
    (kind = "pdf" /\ pc = "done" /\ fed = <<Tag(F_C1a, 1), Tag(F_C1b, 2)>>)
    => /\ Len(pos) = 1
       /\ pos[1].po_number = PO_12345
       /\ pos[1].total_amount = Num(12000)
       /\ Len(finalized) = 1
       /\ Len(finalized[1].doc.items) = 5

\* C2: a three-page file whose pages yield PO "A1", PO "A2" and PO "A1" again (one item
\* each, same retailer) ends with two documents in pos, both "A1", the first holding
\* only page 1's item.
C2_ThreePageScenario ==
    (kind = "pdf" /\ pc = "done" /\ fed = <<Tag(F_A1, 1), Tag(F_A2, 2), Tag(F_A1, 3)>>)
    => /\ Len(pos) = 2
       /\ pos[1].po_number = PO_A1
       /\ Len(pos[1].items) = 1
       /\ pos[2].po_number = PO_A1

\* C3: whenever a group G1 is open under key K1 and a fragment with a PO-number key K2
\* different from K1 is processed, that step removes G1 from the open groups, passes it
\* to finalization, appends it to pos when it is valid, and leaves K2 as an open group.
C3_NewKeyFinalizes ==
    [][ (/\ pc = "docs"
         /\ page_results # <<>>
         /\ merged_docs_map # <<>>
         /\ HasPoNumber(Head(page_results))
         /\ KeyIndex(PoKey(Head(page_results)), merged_docs_map) = {})
        => LET g1 == merged_docs_map[1]
               k2 == PoKey(Head(page_results))
           IN  /\ KeyIndex(g1.key, merged_docs_map') = {}
               /\ Len(finalized') = Len(finalized) + 1
               /\ finalized'[Len(finalized')].doc = g1.doc
               /\ validate_is_po(Prepared(g1.doc, finalized'[Len(finalized')].rows))
                     => pos' = Append(pos, WouldEmit(finalized'[Len(finalized')]))
               /\ KeyIndex(k2, merged_docs_map') # {} ]_vars

\* the step attaches the fragment at the head of the page to the most recent open group
AttachedToLast ==
    LET n == Len(merged_docs_map)
    IN  /\ Len(merged_docs_map') = n
        /\ \A i \in 1..n : merged_docs_map'[i].key = merged_docs_map[i].key
        /\ merged_docs_map'[n].doc.items =
              merged_docs_map[n].doc.items \o Head(page_results).items
        /\ finalized' = finalized

NoPoFragmentAhead ==
    /\ pc = "docs"
    /\ page_results # <<>>
    /\ merged_docs_map # <<>>
    /\ ~ HasPoNumber(Head(page_results))

\* C4 as claimed: a fragment without PO number (empty or a null sentinel), processed
\* while a group is open, is attached to that group (its items appended, no group
\* opened) whenever the open group's retailer equals the fragment's retailer or the
\* open group's retailer is empty.
C4_AttachIfGroupRetailerEmpty ==
    [][ (/\ NoPoFragmentAhead
         /\ LET g == merged_docs_map[Len(merged_docs_map)].doc
            IN  \/ RetailerOf(g) = RetailerOf(Head(page_results))
                \/ RetailerOf(g) = <<>>)
        => AttachedToLast ]_vars

\* C4 as amended: a fragment without PO number (empty or a null sentinel), processed
\* while a group is open, is attached to that group (its items appended, no group
\* opened or finalized) whenever the open group's retailer equals the fragment's
\* retailer or the fragment's retailer is empty.
C4_ContinuationAttach ==
    [][ (/\ NoPoFragmentAhead
         /\ LET g == merged_docs_map[Len(merged_docs_map)].doc
            IN  \/ RetailerOf(g) = RetailerOf(Head(page_results))
                \/ RetailerOf(Head(page_results)) = <<>>)
        => AttachedToLast ]_vars

\* a fragment without PO number and without retailer has been attached to a group
\* that has a retailer
C4_Witness ==
    /\ Len(merged_docs_map) = 1
    /\ \E i, j \in 1..Len(fed) :
          /\ i < j
          /\ ~ HasPoNumber(fed[j])
          /\ RetailerOf(fed[j]) = <<>>
          /\ RetailerOf(fed[i]) # <<>>
          /\ fed[j].items # <<>>
          /\ merged_docs_map[1].doc.items = fed[i].items \o fed[j].items

\* C5: when the fragment being processed has the same non-empty po_number and the same
\* retailer (after trimming and upper-casing) as an open group, the step keeps the set
\* of open groups and makes that group's item list the group's items followed by the
\* fragment's items, so its length is the sum of the two counts.
C5_MergeKeyStability ==
    [][ \A i \in 1..Len(merged_docs_map) :
          (/\ pc = "docs"
           /\ page_results # <<>>
           /\ PoNum(Head(page_results)) # <<>>
           /\ PoNum(merged_docs_map[i].doc) = PoNum(Head(page_results))
           /\ RetailerOf(merged_docs_map[i].doc) = RetailerOf(Head(page_results)))
          => /\ Len(merged_docs_map') = Len(merged_docs_map)
             /\ merged_docs_map'[i].key = merged_docs_map[i].key
             /\ merged_docs_map'[i].doc.items =
                   merged_docs_map[i].doc.items \o Head(page_results).items
             /\ Len(merged_docs_map'[i].doc.items) =
                   Len(merged_docs_map[i].doc.items) + Len(Head(page_results).items)
             /\ finalized' = finalized ]_vars

\* two fragments with the same PO number whose retailers differ only in case and
\* surrounding blanks sit in one group, the first's items before the second's
C5_Witness ==
    /\ Len(merged_docs_map) = 1
    /\ \E i, j \in 1..Len(fed) :
          /\ i < j
          /\ HasPoNumber(fed[i])
          /\ fed[i].po_number = fed[j].po_number
          /\ fed[i].retailer # fed[j].retailer
          /\ RetailerOf(fed[i]) = RetailerOf(fed[j])
          /\ fed[j].items # <<>>
          /\ merged_docs_map[1].doc.items = fed[i].items \o fed[j].items

\* the identity key of the claim: the non-empty barcode, else the non-empty article_code
ClaimKey(item) ==
    IF Truthy(item.barcode) THEN item.barcode ELSE StrOrEmpty(item.article_code)

\* C6: every document in pos, whichever worker appended it, holds no two items with
\* the same non-empty identity key (barcode, else article_code).
C6_PosItemsUnique ==
    \A d \in 1..Len(pos) :
       \A a, b \in 1..Len(pos[d].items) :
          (a # b /\ ClaimKey(pos[d].items[a]) # <<>>)
          => ClaimKey(pos[d].items[a]) # ClaimKey(pos[d].items[b])

HasNoKey(item) == ~ Truthy(item.barcode) /\ ~ Truthy(item.article_code)

\* C7: deduplication returns a list no longer than its input, keeps every item that has
\* neither a non-empty barcode nor a non-empty article_code, and returns its own output
\* unchanged when applied to it.
C7_Dedupe ==
    /\ fstep = "out" => /\ Len(res) <= Len(arg)
                        /\ SelectSeq(res, HasNoKey) = SelectSeq(arg, HasNoKey)
    /\ fstep = "again" => res = arg

\* a list holding an item without key and two items with one key has been deduplicated
C7_Witness ==
    /\ fstep = "out"
    /\ Len(res) < Len(arg)
    /\ SelectSeq(arg, HasNoKey) # <<>>

\* C8: on a document with at least one item, flag_amount_mismatch sets is_flagged with a
\* reason holding the items sum, the declared total and the difference in two decimals
\* exactly when |items sum - declared total| >= 1.00 and the declared total is > 0, and
\* otherwise sets is_flagged = false and flag_reason = null; items summing to 100.00 are
\* not flagged against 100.99 and are flagged, with difference 1.01, against 98.99.
C8_FlagAmountMismatch ==
    (fstep = "out" /\ arg.items # <<>>)
    => LET items_sum == calculate_items_sum(arg.items)
           declared == IF Coercible(arg.total_amount) THEN arg.total_amount.c ELSE 0
           delta == Abs(items_sum - declared)
       IN  /\ res.is_flagged <=> (delta >= 100 /\ declared > 0)
           /\ res.is_flagged =>
                 res.flag_reason = [set |-> TRUE, items_sum |-> Fmt2(items_sum),
                                    total_amount |-> Fmt2(declared),
                                    difference |-> Fmt2(delta)]
           /\ ~ res.is_flagged => res.flag_reason = NoReason
           /\ (arg.items = <<Item(None, None, Num(10000), NoAmount)>>
               /\ arg.total_amount = Num(10099)) => ~ res.is_flagged
           /\ (arg.items = <<Item(None, None, Num(10000), NoAmount)>>
               /\ arg.total_amount = Num(9899))
              => /\ res.is_flagged
                 /\ res.flag_reason.difference = [neg |-> FALSE, units |-> 1, cents |-> 1]

\* two items summing to 100.00 against a declared 98.99 have been flagged with
\* difference 1.01
C8_Witness ==
    /\ fstep = "out"
    /\ calculate_items_sum(arg.items) = 10000
    /\ Len(arg.items) = 2
    /\ arg.total_amount = Num(9899)
    /\ res.is_flagged
    /\ res.flag_reason.difference = Fmt2(101)

\* C9: the score get_standard_retailer_info returns, and the reliability_score
\* enrich_po_data stores, lie in 0..100 whatever signals fire.
C9_ScoreRange ==
    /\ fstep \in {"ret", "enriched"} => res.ret.score \in 0..100
    /\ fstep = "enriched" => res.out[1].reliability_score \in 0..100

\* a candidate whose signals add up to more than 100 has been returned with score 100
C9_Witness ==
    /\ fstep = "enriched"
    /\ res.acc.max_score > 100
    /\ res.out[1].reliability_score = 100

\* C10: when no catalog entry reaches the minimum score the matcher returns the
\* extracted name and address, no debtor code, branch code or branch label and score
\* 0, and finalization of the group goes on to validation and emission: a valid group
\* is appended to pos.
C10_UnderflowStillEmits ==
    \A i \in 1..Len(finalized) :
       LET e == finalized[i]
           extracted_name == ExtractedName(e.doc)
           q == Query(extracted_name, e.doc.branch_name)
       IN  BelowThreshold(q, ScanRows(q, e.rows, NoBest))
           => /\ MatchFor(e.doc, e.rows) = NoMatch(extracted_name, e.doc.delivery_address)
              /\ validate_is_po(Prepared(e.doc, e.rows)) => InPos(WouldEmit(e))

\* C11: for a fixed query and candidate, the candidate's score when the extracted
\* branch name is contained in its branch label is never lower than without that
\* containment, and when every test that succeeded still succeeds (more corroborating
\* signals) neither the candidate's score nor the score the matcher returns decreases;
\* no score is negative.
C11_Monotone ==
    fstep = "scored"
    => /\ res.weak_score >= 0
       /\ res.weak_score <= res.strong_score
       /\ res.weak_ret.score <= res.strong_ret.score
       /\ [res.weak EXCEPT !.branch = "contains"] = res.strong
             => res.weak_score <= res.strong_score

\* the extracted branch name passes the length guard, the two runs differ only in the
\* containment of the branch name, and the returned score rose
C11_Witness ==
    /\ fstep = "scored"
    /\ res.q.branch_guard
    /\ res.weak.branch = "none"
    /\ res.strong = [res.weak EXCEPT !.branch = "contains"]
    /\ res.strong_score = res.weak_score + WBranchContains
    /\ res.weak_ret.score < res.strong_ret.score

IsPunct(c) == c \in {"(", ")", " "}

NotPunct(c) == ~ IsPunct(c)

\* C12: normalization (upper-case, then delete every character outside A-Z and 0-9)
\* returns its own output unchanged, gives the same result whatever the case and the
\* punctuation of the text, maps "Giant (KL)" and "GIANT KL" to the same text, and is
\* the normalization the matcher applies to the extracted values.
C12_Normalize ==
    /\ fstep = "again" => res = arg
    /\ fstep = "out"
       => /\ res = clean_text(Lower(arg))
          /\ res = clean_text(SelectSeq(arg, NotPunct))
          /\ res = po_name_clean(arg)
          /\ arg # <<>> => res = po_branch_name_clean(arg)
          /\ arg \in {T_GiantKL, T_GIANT_KL} => res = <<"G","I","A","N","T","K","L">>

\* "Giant (KL)" has been normalized to GIANTKL
C12_Witness ==
    /\ fstep = "out"
    /\ arg = T_GiantKL
    /\ res = clean_text(T_GIANT_KL)
    /\ res # arg

\* C13: every read and write of a batch's record happens while batch_lock is held, so
\* what a poll is served is the record as it was while the poll held the lock: no part
\* of it is read while or after the worker modifies it.
C13_PollUnderLock ==
    fstep = "served" => arg = res

\* C14: an exception raised while a page is processed, also one raised while a
\* previously open group is finalized on that page, loses no completed work: every
\* group open before the exception is afterwards still open or has been emitted to pos.
C14_PageErrorKeepsGroups ==
    [][ Len(page_errors') > Len(page_errors)
        => \A i \in 1..Len(merged_docs_map) :
              \/ \E j \in 1..Len(merged_docs_map') :
                    merged_docs_map'[j] = merged_docs_map[i]
              \/ \E rows \in BatchPools, j \in 1..Len(pos') :
                    pos'[j] = flag_amount_mismatch(Prepared(merged_docs_map[i].doc, rows))
      ]_vars

\* C15: an exception raised while page N of a PDF batch is processed adds exactly one
\* entry {page: N, error} to page_errors, leaves status, error and pos as they were,
\* and returns to the page loop, which goes on with page N+1; a run in which no
\* exception escapes the page loop ends with status complete.
C15_PageErrorRecorded ==
    [][ /\ page_errors' # page_errors /\ pc # "idle"
           => /\ Len(page_errors') = Len(page_errors) + 1
              /\ SubSeq(page_errors', 1, Len(page_errors)) = page_errors
              /\ page_errors'[Len(page_errors')].page = current_page
              /\ page_errors'[Len(page_errors')].error \in {E_page, E_attr}
              /\ status = "processing" /\ status' = "processing"
              /\ error' = error /\ pos' = pos
              /\ current_page' = current_page /\ pc' = "loop"
        /\ (kind = "pdf" /\ pc = "loop" /\ pc' = "done" /\ status' = "error")
           => /\ page_errors' = page_errors
              /\ error' = E_attr
              /\ finalized' # finalized
      ]_vars

\* a page failed, the page after it was extracted, and the run ended complete
C15_Witness ==
    /\ kind = "pdf"
    /\ pc = "done"
    /\ status = "complete"
    /\ error = NoError
    /\ \E k \in 1..Len(page_errors), i \in 1..Len(fed) :
          fed[i].page_num = page_errors[k].page + 1

\* C16: an exception that escapes the page loop of a worker, also one raised by the
\* finalization at the end of the pages, sets status to error with a non-null error
\* message and leaves pos and page_errors as they were; a worker that stops without
\* completing has set status to error.
C16_WholeFileError ==
    [][ /\ (status' = "error" /\ status # "error")
           => /\ status = "processing"
              /\ error' # NoError
              /\ pos' = pos
              /\ page_errors' = page_errors
              /\ pc' = "done"
        /\ (pc' = "done" /\ pc # "done" /\ status' # "complete")
           => status' = "error" /\ error' # NoError
        /\ (status = "error" /\ pc' # "idle" /\ pc # "idle")
           => status' = "error" /\ error' = error /\ pos' = pos
      ]_vars

\* the finalization after the last page raised: the status is error with the message
\* of the exception, and the page error recorded before it is still there
C16_Witness ==
    /\ kind = "pdf"
    /\ pc = "done"
    /\ status = "error"
    /\ error = E_attr
    /\ page_errors # <<>>
    /\ finalized # <<>>
    /\ finalized[Len(finalized)].where = "end"

\* C17: no document in pos lacks a retailer, has zero line items or has a document_type
\* containing invoice, receipt or packing: such a candidate is dropped, not appended.
C17_InvalidNeverEmitted ==
    \A j \in 1..Len(pos) :
       /\ Truthy(pos[j].retailer)
       /\ pos[j].items # <<>>
       /\ LET doc_type == Lower(PyStr(pos[j].document_type))
          IN  ~ (Contains(doc_type, Invoice) \/ Contains(doc_type, Receipt)
                 \/ Contains(doc_type, Packing))

\* C18: when the pages of a file have ended, every group still open has been finalized
\* exactly once and, when valid, emitted to pos exactly once; a run without page
\* errors then has status complete.
C18_EndOfStreamEmits ==
    (kind = "pdf" /\ pc = "done" /\ error # E_open)
    => /\ \A i \in 1..Len(merged_docs_map) :
             LET g == merged_docs_map[i]
                 calls == {j \in 1..Len(finalized) :
                             finalized[j].where = "end" /\ finalized[j].doc = g.doc}
             IN  /\ Cardinality(calls) = 1
                 /\ \A j \in calls :
                       validate_is_po(Prepared(g.doc, finalized[j].rows))
                       => Cardinality({k \in 1..Len(pos) :
                                         pos[k] = WouldEmit(finalized[j])}) = 1
       /\ page_errors = <<>> => status = "complete"

\* C19: every external call returning, a worker that has started (status processing)
\* eventually sets the status of its batch to complete or to error; no step of the
\* program stops it before.
C19_WorkerTerminates ==
    (status = "processing") ~> (status \in {"complete", "error"})

\* a PDF worker has gone through two pages and set status to complete
C19_Witness ==
    /\ kind = "pdf"
    /\ pc = "done"
    /\ current_page >= 2
    /\ status = "complete"

SetMax(S) == CHOOSE x \in S : \A y \in S : y <= x

\* C20: over any sequence of merges into one group the group's total_amount is numeric
\* (a missing total counting as 0) and equals the maximum of the coercible totals merged so far; a merge replaces it
\* only by a strictly larger total, never decreases it, and a fragment whose total is
\* missing or not coercible leaves it unchanged while its items are appended.
C20_TotalIsMax ==
    /\ [](fstep = "merge"
          => LET coercible == {arg[i].c : i \in {j \in 1..Len(arg) : Coercible(arg[j])}}
             IN  coercible # {}
                 => /\ res.total_amount.k # "bad"
                    /\ res.total_amount.c = SetMax(coercible))
    /\ [][ fstep = "merge"
           => LET new_total == arg'[Len(arg')]
                  numeric(a) == IF Coercible(a) THEN a.c ELSE 0
              IN  /\ numeric(res'.total_amount) >= numeric(res.total_amount)
                  /\ res'.total_amount # res.total_amount
                        => /\ Coercible(new_total)
                           /\ new_total.c > numeric(res.total_amount)
                  /\ ~ Coercible(new_total) => res'.total_amount = res.total_amount
                  /\ Len(res'.items) >= Len(res.items) ]_vars

\* the keys of a document, other than total_amount and items, that the merge loop of
\* lines 463-467 may fill
ScalarFields == {"po_number", "retailer", "document_type", "delivery_address", "branch_name"}

\* C21: in the merge transition, for every field other than total_amount, a value that
\* is non-empty in the group is not overwritten by the fragment, and a field that is
\* empty in the group takes the fragment's value when that value is truthy and stays as
\* it is otherwise (first non-empty value wins).
C21_FirstNonEmptyWins ==
    [][ \A i \in 1..Len(merged_docs_map) :
          (/\ pc = "docs"
           /\ page_results # <<>>
           /\ HasPoNumber(Head(page_results))
           /\ merged_docs_map[i].key = PoKey(Head(page_results)))
          => /\ Len(merged_docs_map') = Len(merged_docs_map)
             /\ \A f \in ScalarFields :
                   LET old == merged_docs_map[i].doc[f]
                       new == Head(page_results)[f]
                       now == merged_docs_map'[i].doc[f]
                   IN  /\ Truthy(old) => now = old
                       /\ (~ Truthy(old) /\ Truthy(new)) => now = new
                       /\ (~ Truthy(old) /\ ~ Truthy(new)) => now = old
             /\ merged_docs_map'[i].doc.page_num = merged_docs_map[i].doc.page_num ]_vars

\* a group opened without delivery address has taken the address of a later fragment
\* of its key and kept the branch name it was opened with
C21_Witness ==
    /\ Len(merged_docs_map) = 1
    /\ \E i, j \in 1..Len(fed) :
          /\ i < j
          /\ HasPoNumber(fed[i])
          /\ PoKey(fed[i]) = PoKey(fed[j])
          /\ ~ Truthy(fed[i].delivery_address)
          /\ Truthy(fed[j].delivery_address)
          /\ Truthy(fed[i].branch_name)
          /\ merged_docs_map[1].doc.delivery_address = fed[j].delivery_address
          /\ merged_docs_map[1].doc.branch_name = fed[i].branch_name
          /\ merged_docs_map[1].doc.page_num = fed[i].page_num

\* C22: after every fragment-processing step at most one group is open; a fragment
\* whose key is not open has every open group finalized and its own key left as the
\* only open group.
C22_SoleOpenGroup ==
    /\ [](Len(merged_docs_map) <= 1)
    /\ [][ (/\ pc = "docs"
            /\ page_results # <<>>
            /\ ~ IsContinuation(Head(page_results), merged_docs_map)
            /\ KeyIndex(MergeKey(Head(page_results), merged_docs_map), merged_docs_map) = {})
           => /\ Len(finalized') = Len(finalized) + Len(merged_docs_map)
              /\ \A i \in 1..Len(merged_docs_map) :
                    finalized'[Len(finalized) + i].doc = merged_docs_map[i].doc
              /\ Len(merged_docs_map') = 1
              /\ merged_docs_map'[1].key = MergeKey(Head(page_results), merged_docs_map)
              /\ merged_docs_map'[1].doc = Head(page_results) ]_vars

\* C23: whenever a fragment without PO number finds no matching open group, the
\* placeholder key synthesized for it differs from every key that is open and from
\* every key under which a group of the file was opened before (each such group is
\* either still open or was handed to finalization).
C23_PlaceholderUnique ==
    [][ (/\ pc = "docs"
         /\ page_results # <<>>
         /\ ~ HasPoNumber(Head(page_results))
         /\ ~ IsContinuation(Head(page_results), merged_docs_map))
        => LET key == PlaceholderKey(Head(page_results), merged_docs_map)
           IN  /\ \A i \in 1..Len(merged_docs_map) : merged_docs_map[i].key # key
               /\ \A j \in 1..Len(finalized) : finalized[j].key # key ]_vars

\* the identity key of an item: its trimmed barcode if that is non-empty, else its
\* trimmed article_code
TrimmedKey(item) ==
    LET b == Strip(StrOrEmpty(item.barcode))
    IN  IF b # <<>> THEN b ELSE Strip(StrOrEmpty(item.article_code))

\* positions of the items that have no identity key or are the first with their key
Survivors(items) ==
    {i \in 1..Len(items) :
        \/ TrimmedKey(items[i]) = <<>>
        \/ \A j \in 1..(i - 1) : TrimmedKey(items[j]) # TrimmedKey(items[i])}

\* the n-th position of S in increasing order
NthOf(S, n) == CHOOSE i \in S : Cardinality({j \in S : j < i}) = n - 1

\* C24: deduplication keeps, for each identity key (trimmed barcode if non-empty, else
\* trimmed article_code), exactly the first item carrying it and drops every later one,
\* the survivors standing in the order of the input; an item whose article_code equals
\* an earlier item's barcode is dropped for that reason only if it has no barcode of
\* its own.
C24_FirstOccurrenceWins ==
    fstep = "out"
    => /\ Len(res) = Cardinality(Survivors(arg))
       /\ \A n \in 1..Len(res) : res[n] = arg[NthOf(Survivors(arg), n)]
       /\ \A i \in 1..Len(arg) :
             (/\ \E j \in 1..(i - 1) :
                    /\ Truthy(arg[j].barcode)
                    /\ Strip(arg[j].barcode) = Strip(StrOrEmpty(arg[i].article_code))
              /\ \A j \in 1..(i - 1) : arg[j] # arg[i])
             => (\E n \in 1..Len(res) : res[n] = arg[i]) <=> Truthy(arg[i].barcode)

\* of two items whose article_code is the barcode of the first item, the one with a
\* barcode of its own was kept and the one without was dropped
C24_Witness ==
    /\ fstep = "out"
    /\ arg = <<I1, I7, I5>>
    /\ res = <<I1, I7>>

\* the extractor has just answered None or [] for the current page
EmptyExtraction ==
    /\ pc = "docs"
    /\ page_results = <<>>
    /\ \A i \in 1..Len(fed) : fed[i].page_num # current_page

\* C25: when the extractor returns nothing for a page (None or an empty list) the page
\* is skipped: open groups, pos, page_errors, status and error stay as they were before
\* the page, no group is finalized, and the worker returns to the page loop, which
\* takes the next page if there is one; the file is not aborted.
C25_EmptyPageSkipped ==
    [][ /\ (pc = "extract" /\ pc' = "docs" /\ page_results' = <<>>)
           => /\ UNCHANGED <<merged_docs_map, pos, page_errors, status, error, finalized,
                             fed, current_page>>
              /\ status = "processing"
        /\ EmptyExtraction
           => /\ UNCHANGED <<merged_docs_map, pos, page_errors, status, error, finalized,
                             fed, current_page>>
              /\ pc' = "loop"
        /\ (pc = "loop" /\ current_page < total_pages)
           => /\ current_page' = current_page + 1
              /\ pc' = "extract"
              /\ status' = status ]_vars

\* the extractor returned nothing for page 2 while the group opened by page 1 is open:
\* the group is as page 1 left it and nothing was recorded or finalized
C25_Witness ==
    /\ kind = "pdf"
    /\ EmptyExtraction
    /\ current_page = 2
    /\ current_page < total_pages
    /\ status = "processing"
    /\ page_errors = <<>>
    /\ finalized = <<>>
    /\ Len(fed) = 1
    /\ merged_docs_map = <<[key |-> PoKey(fed[1]), doc |-> fed[1]]>>

\* C26: attaching a fragment without PO number as a continuation changes only the
\* items of the group it is attached to: that group's total_amount and other fields,
\* its key and every other group stay as they were, whatever total or fields the
\* fragment carries, and the step opens, finalizes and emits no group.
C26_AttachOnlyItems ==
    [][ (/\ pc = "docs"
         /\ page_results # <<>>
         /\ ~ HasPoNumber(Head(page_results))
         /\ \E i \in 1..Len(merged_docs_map) :
               \/ RetailerOf(merged_docs_map[i].doc) = RetailerOf(Head(page_results))
               \/ RetailerOf(Head(page_results)) = <<>>)
        => /\ \E i \in 1..Len(merged_docs_map) :
                 merged_docs_map' =
                    [merged_docs_map EXCEPT
                        ![i].doc.items = @ \o Head(page_results).items]
           /\ UNCHANGED <<pos, finalized, page_errors, status, pc>> ]_vars

\* a continuation with a larger total and a retailer of its own was attached: the
\* group got the items and kept the total and the fields it had
C26_Witness ==
    /\ Len(merged_docs_map) = 1
    /\ Len(fed) = 2
    /\ ~ HasPoNumber(fed[2])
    /\ fed[2].items # <<>>
    /\ Coercible(fed[1].total_amount)
    /\ Coercible(fed[2].total_amount)
    /\ fed[2].total_amount.c > fed[1].total_amount.c
    /\ merged_docs_map[1].doc = [fed[1] EXCEPT !.items = @ \o fed[2].items]

\* C27: the status of a batch is always one of processing, complete, error; it is
\* processing, with a null error, from the creation of the record; once complete or
\* error it never changes again; error is non-null only when the status is error.
C27_StatusLifecycle ==
    /\ [](kind # "none" => status \in {"processing", "complete", "error"})
    /\ [](error # NoError => status = "error")
    /\ [][ /\ (kind = "none" /\ kind' # "none")
              => status' = "processing" /\ error' = NoError
           /\ status \in {"complete", "error"} => status' = status
           /\ status' \in {"complete", "error"} => pc' = "done" ]_vars

\* an image batch has ended complete with a document in pos and no error
C27_Witness ==
    /\ kind = "image"
    /\ pc = "done"
    /\ status = "complete"
    /\ error = NoError
    /\ pos # <<>>

IsPrefix(s, t) == Len(s) <= Len(t) /\ SubSeq(t, 1, Len(s)) = s

\* s is t with some elements left out
RECURSIVE IsSubseq(_, _)
IsSubseq(s, t) ==
    IF s = <<>> THEN TRUE
    ELSE IF t = <<>> THEN FALSE
    ELSE IF Head(s) = Head(t) THEN IsSubseq(Tail(s), Tail(t))
    ELSE IsSubseq(s, Tail(t))

\* the documents of docs that pass validation, flagged, in the order of docs
RECURSIVE EmitSeq(_)
EmitSeq(docs) == IF docs = <<>> THEN <<>> ELSE Emitted(Head(docs)) \o EmitSeq(Tail(docs))

\* C28: pos is append-only under every interleaving of worker and polls: no step
\* changes or removes a document that is in pos, the list an earlier poll saw is a
\* prefix of the list a later poll sees, and the documents stand in the order in which
\* their groups were opened (the order of the extraction).
C28_PosAppendOnly ==
    /\ [][ /\ IsPrefix(pos, pos')
           /\ (fstep = "read" /\ fstep' = "served") => IsPrefix(res.pos, arg'.pos)
           /\ (fstep = "served" /\ fstep' = "read")
              => IsPrefix(res.pos, res'.pos) /\ IsPrefix(arg.pos, res'.pos) ]_vars
    /\ [](kind = "pdf"
          => IsSubseq(pos, [j \in 1..Len(finalized) |-> WouldEmit(finalized[j])]))
    /\ [](kind = "image"
          => \E rows \in BatchPools :
                pos \o EmitSeq(results)
                   = EmitSeq([i \in 1..Len(fed) |-> enrich_po_data(fed[i], rows)]))

\* a poll read the record when pos held the first document of an image and was served
\* after the worker had appended the second
C28_Witness ==
    /\ kind = "image"
    /\ fstep = "served"
    /\ Len(res.pos) = 1
    /\ Len(arg.pos) = 2
    /\ arg.pos[1] = res.pos[1]
    /\ arg.pos[1].po_number = NormalizePoNumber(fed[1].po_number)
    /\ arg.pos[2].po_number = NormalizePoNumber(fed[2].po_number)
    /\ arg.pos[1].po_number # arg.pos[2].po_number

\* C29: every score a candidate can get is 0 or at least 20, so the thresholds 10 and
\* 15 reject no candidate with a positive score: the matcher returns "no match" exactly
\* when no candidate scanned scored above 0, and an accepted match has a score in
\* 20..100.
C29_ScoreGap ==
    /\ [](\A ev \in EvSet : RowScore(res.q, ev) = 0 \/ RowScore(res.q, ev) >= 20)
    /\ [](res.acc.max_score = 0 \/ res.acc.max_score >= 20)
    /\ [][ (fstep = "scan" /\ fstep' = "scan")
           => \E ev \in EvSet :
                 LET score == RowScore(res.q, ev)
                 IN  res'.acc.max_score =
                        IF score > res.acc.max_score THEN score ELSE res.acc.max_score ]_vars
    /\ [](fstep \in {"ret", "enriched"}
          => /\ res.ret = NoMatch(ExtractedName(arg), arg.delivery_address)
                   <=> res.acc.max_score = 0
             /\ res.acc.max_score > 0
                   => /\ res.ret.score \in 20..100
                      /\ res.ret.name = res.acc.best_match[1].retailers_name)

\* under the threshold 15 a candidate whose only signal is the lower address-overlap
\* bucket was accepted with score 20
C29_Witness ==
    /\ fstep = "ret"
    /\ MinThreshold(res.q) = DefaultThreshold
    /\ res.acc.max_score = WRatioMid
    /\ res.ret.score = 20
    /\ res.ret.name = res.acc.best_match[1].retailers_name

\* the items of the documents of docs, in the order of docs
RECURSIVE AllItems(_)
AllItems(docs) == IF docs = <<>> THEN <<>> ELSE Head(docs).items \o AllItems(Tail(docs))

\* neither pdfplumber nor the extraction of a page raised
NoExternalException ==
    /\ error # E_open
    /\ \A k \in 1..Len(page_errors) : page_errors[k].error # E_page

====
